---------------------------- MODULE Spec2Model ----------------------------
(***************************************************************************)
(* Paper2Gif (src/main.py): Renderer lays the pages of a compiled PDF out  *)
(* on a canvas, GitHelper.run walks the revisions of a repository, checks  *)
(* each one out, builds it, renders it and finally encodes the frames as   *)
(* an animated GIF.                                                        *)
(*                                                                         *)
(* External collaborators (git, the build command, pdf2image, PIL) are     *)
(* modelled by their observable outcomes:                                  *)
(*   - git checkout -f  : exits 0 (tree moved), exits non-zero (tree not   *)
(*                        moved, nothing raised: the exit status is never  *)
(*                        read), or the process cannot be launched         *)
(*                        (Popen raises OSError);                          *)
(*   - build command    : exits 0 and writes the artifact from the current *)
(*                        tree, exits non-zero leaving the old artifact or *)
(*                        an unreadable one, or cannot be launched;        *)
(*   - convert_from_path: PDFPageCountError for a missing/unreadable       *)
(*                        artifact, else the artifact's pages;             *)
(* Floats: math.floor(a / b) of the source is a float division followed by *)
(* floor; for the non-negative operands below 2^53 used here it is a \div b*)
(***************************************************************************)
EXTENDS Integers, Sequences, FiniteSets, TLC

\* ------------------------------------------------------------- bounds --
MaxRevs == 3        \* longest revision history
MaxPages == 3       \* most pages of one compiled document

\* ------------------------------------------------------------- inputs --
None == "None"
AllHashes == <<"a", "b", "c", "d", "e", "f">>
\* Hash values a caller may pass: those of the longest history and one more,
\* so that a start/end hash absent from every history exists.
Hashes == {AllHashes[i] : i \in 1..(MaxRevs + 1)}
\* RepositoryMining(...).traverse_commits(): unique hashes, oldest first.
Histories == {SubSeq(AllHashes, 1, n) : n \in 0..MaxRevs}
GifPaths == {None, "out.gif"}

\* (framewidth, frameheight, pagewidth, pageheight) requested on the
\* command line for a whole run
RunSizes ==
  { <<105, 60, 40, 8>>,     \* 105x100 canvas, 40x10 pages: 2 per row
    <<50, 120, 60, 20>>,    \* 100x120 canvas, 60x20 pages: 1 per row
    <<50, 120, 150, 20>>,   \* 100x120 canvas, 150x20 pages: 0 per row
    <<100, 100, 5, 10>> }   \* 100x100 canvas, 10x10 pages: 10 per row
\* requested sizes for direct calls of the layout
FrameWidths == {50, 99, 100, 101, 105, 120, 125}
FrameHeights == {60, 100, 130}
PageWidths == {5, 10, 11, 30, 40, 50, 60, 100, 101, 150}
PageHeights == {8, 10, 25}

NoArtifact == [src |-> "missing", pages |-> 0]
Unreadable == [src |-> "unreadable", pages |-> 0]
\* tree state before the run: whatever the user had checked out
Dirty == "worktree"

VARIABLES
  args,       \* parsed command line: framewidth, frameheight, pagewidth,
              \* pageheight, starthash, endhash, gifpath
  history,    \* commits of the repository, oldest first
  pc,         \* position in main / GitHelper.run
  img_size,   \* Renderer.img_size
  page_size,  \* Renderer.page_size
  hashes,     \* run: hashes
  frames,     \* run: frames
  prefix,     \* run: prefix
  stop,       \* run: stop
  hash,       \* run: hash
  head,       \* revision the working tree is at
  artifact,   \* file at outpath: the tree it was built from and its pages
  files,      \* PNG files written to the cwd by this run
  gif,        \* frames written to gif_path, <<>> while no file is written
  err,        \* uncaught exception that ended the process, None if none
  pages,      \* number of pages handed to the latest _layout_pages call
  canvas,     \* boxes pasted on the canvas by the latest _layout_pages call
  checked,    \* history: one record per checkout call, in call order
  built,      \* history: one record per compile_pdf call
  rendered    \* history: one record per renderer.render call, with the
              \* document found at outpath

vars == <<args, history, pc, img_size, page_size, hashes, frames, prefix,
          stop, hash, head, artifact, files, gif, err, pages, canvas,
          checked, built, rendered>>

runVars == <<hashes, frames, prefix, stop, hash, head, artifact, files, gif,
             checked, built, rendered>>

\* ------------------------------------------------------------ Renderer --
Max(a, b) == IF a >= b THEN a ELSE b

\* Renderer.__init__, line 19
MinImg == 100
ClampImg(w, h) == <<Max(MinImg, w), Max(MinImg, h)>>
\* slip: the canvas floor applied to the page size as well
ClampPageAsImg(w, h) == <<Max(MinImg, w), Max(MinImg, h)>>
\* Renderer.__init__, line 20
MinPage == 10
ClampPage(w, h) == <<Max(MinPage, w), Max(MinPage, h)>>

\* _layout_pages, line 33
pages_per_row(isz, psz) == isz[1] \div psz[1]
\* slip: the leftover width not halved
marginWhole(isz, psz) == isz[1] - pages_per_row(isz, psz) * psz[1]
\* _layout_pages, line 34
margin(isz, psz) == (isz[1] - pages_per_row(isz, psz) * psz[1]) \div 2

\* _layout_pages, line 36: the box of page i (0-based); needs pages_per_row > 0
PasteX(isz, psz, i) == margin(isz, psz) + psz[1] * (i % pages_per_row(isz, psz))
\* slip: the row computed like the column
PasteYMod(isz, psz, i) == psz[2] * (i % pages_per_row(isz, psz))
PasteY(isz, psz, i) == psz[2] * (i \div pages_per_row(isz, psz))
PasteAt(isz, psz, i) == <<PasteX(isz, psz, i), PasteY(isz, psz, i)>>

\* _layout_pages, lines 35-36: i % pages_per_row raises for the first page
LayoutRaises(isz, psz, n) == n > 0 /\ pages_per_row(isz, psz) = 0

\* _layout_pages, lines 35-37: the pastes in loop order
_layout_pages(isz, psz, n) == [k \in 1..n |-> PasteAt(isz, psz, k - 1)]

\* slip: files numbered from 0
DigestPathZeroBased(p) == ToString(p - 1) \o "_digest.png"
\* render, line 55, with run, line 115: str(prefix) + "_digest.png"
DigestPath(p) == ToString(p) \o "_digest.png"

\* render, lines 53-54: what the call raises for the artifact at outpath
RenderResult(art, isz, psz) ==
  IF art.pages = 0 THEN "PDFPageCountError"
  ELSE IF LayoutRaises(isz, psz, art.pages) THEN "ZeroDivisionError"
  ELSE "ok"

\* ----------------------------------------------------------- GitHelper --
\* run, lines 107-108
RECURSIVE DropUntil(_, _)
DropUntil(hs, start) ==
  IF Len(hs) > 0 /\ hs[1] # start THEN DropUntil(Tail(hs), start) ELSE hs

\* run, line 104
InitialPrefix == 1

\* slip: hashes[0] read without removing it
PopNothing(hs) == hs
\* run, line 111: what hashes.pop(0) leaves in the list
Pop(hs) == Tail(hs)

\* slip: the start revision dropped as well (exclusive start)
FilterStartExclusive(hs, start) ==
  IF start # None /\ Len(DropUntil(hs, start)) > 0
    THEN Tail(DropUntil(hs, start))
    ELSE hs
\* run, lines 106-108
FilterStart(hs, start) == IF start # None THEN DropUntil(hs, start) ELSE hs

\* slip: the except clause names an exception render never raises
CaughtNothing(result) == FALSE
\* run, line 117: the exceptions the try block handles
Caught(result) == result = "PDFPageCountError"

\* slip: the build run with check=True, a non-zero exit raises
BuildRaisesOnFailure(exit) == exit # "exit0"
\* compile_pdf, lines 92-93: only a command that cannot be launched raises,
\* the return code is never read
BuildRaises(exit) == exit = "OSError"

\* slip: the loop also stops once the end revision is no longer queued
StopAfterEndGone(h, end, hs) ==
  h = end \/ Len(hs) = 0 \/ (end # None /\ \A k \in 1..Len(hs) : hs[k] # end)
\* slip: the end revision is not compared
StopAfterExhausted(h, end, hs) == Len(hs) = 0
\* run, line 121
StopAfter(h, end, hs) == h = end \/ Len(hs) = 0

\* slip: append_images=frames, the first frame written twice
EncodedTwice(fs) == <<Head(fs)>> \o fs
\* run, lines 124-125: img, *imgs = frames; img.save(append_images=imgs)
Encoded(fs) == <<Head(fs)>> \o Tail(fs)

\* --------------------------------------------------------------- Init --
InitRun ==
  /\ pc = "main"
  /\ img_size = <<0, 0>>
  /\ page_size = <<0, 0>>
  /\ hashes = <<>>
  /\ frames = <<>>
  /\ prefix = 0
  /\ stop = FALSE
  /\ hash = None
  /\ head = Dirty
  /\ files = {}
  /\ gif = <<>>
  /\ err = None
  /\ pages = 0
  /\ canvas = <<>>
  /\ checked = <<>>
  /\ built = <<>>
  /\ rendered = <<>>

Init ==
  /\ history \in Histories
  /\ \E s \in RunSizes, sh \in Hashes \cup {None}, eh \in Hashes \cup {None},
        g \in GifPaths :
       args = [framewidth |-> s[1], frameheight |-> s[2], pagewidth |-> s[3],
               pageheight |-> s[4], starthash |-> sh, endhash |-> eh,
               gifpath |-> g]
  /\ artifact \in {NoArtifact, [src |-> Dirty, pages |-> 1]}
  /\ InitRun

\* ------------------------------------------------------------ actions --
\* main, lines 143-144: Renderer(...) and GitHelper(...)
Main ==
  /\ pc = "main"
  /\ img_size' = ClampImg(args.framewidth, args.frameheight)
  /\ page_size' = ClampPage(args.pagewidth, args.pageheight)
  /\ pc' = "run"
  /\ UNCHANGED <<args, history, err, pages, canvas, artifact>>
  /\ UNCHANGED <<hashes, frames, prefix, stop, hash, head, files, gif,
                 checked, built, rendered>>

\* run, lines 103-109
RunStart ==
  /\ pc = "run"
  /\ frames' = <<>>
  /\ prefix' = InitialPrefix
  /\ hashes' = FilterStart(history, args.starthash)
  /\ stop' = (Len(hashes') = 0)
  /\ pc' = "while"
  /\ UNCHANGED <<args, history, img_size, page_size, hash, head, artifact,
                 files, gif, err, pages, canvas, checked, built, rendered>>

\* run, lines 110-111
While ==
  /\ pc = "while"
  /\ IF stop
       THEN /\ pc' = "gif"
            /\ UNCHANGED <<hash, hashes>>
       ELSE /\ hash' = Head(hashes)
            /\ hashes' = Pop(hashes)
            /\ pc' = "checkout"
  /\ UNCHANGED <<args, history, img_size, page_size, frames, prefix, stop,
                 head, artifact, files, gif, err, pages, canvas, checked, built,
                 rendered>>

\* run, line 113, and checkout, lines 81-85
Checkout ==
  /\ pc = "checkout"
  /\ \E outcome \in {"exit0", "exit1", "OSError"} :
       /\ checked' = Append(checked, [hash |-> hash, exit |-> outcome])
       /\ head' = IF outcome = "exit0" THEN hash ELSE head
       /\ err' = IF outcome = "OSError" THEN "OSError" ELSE err
       /\ pc' = IF outcome = "OSError" THEN "crashed" ELSE "compile"
  /\ UNCHANGED <<args, history, img_size, page_size, hashes, frames, prefix,
                 stop, hash, artifact, files, gif, pages, canvas, built,
                 rendered>>

\* run, line 114, and compile_pdf, lines 91-93
CompilePdf ==
  /\ pc = "compile"
  /\ \E exit \in {"exit0", "exit1", "OSError"} :
       /\ built' = Append(built, [hash |-> hash, exit |-> exit])
       /\ \/ /\ exit = "exit0"       \* the artifact is built from the tree
             /\ \E n \in 1..MaxPages :
                  artifact' = [src |-> head, pages |-> n]
          \/ /\ exit = "exit1"       \* the old file stays or a broken one
             /\ artifact' \in {artifact, Unreadable}
          \/ /\ exit = "OSError"     \* nothing was run
             /\ artifact' = artifact
       /\ pc' = IF BuildRaises(exit) THEN "crashed" ELSE "render"
       /\ err' = IF BuildRaises(exit) THEN "OSError" ELSE err
  /\ UNCHANGED <<args, history, img_size, page_size, hashes, frames, prefix,
                 stop, hash, head, files, gif, pages, canvas, checked,
                 rendered>>

\* run, lines 115-118, and render, lines 52-58
Render ==
  /\ pc = "render"
  /\ LET result == RenderResult(artifact, img_size, page_size) IN
       /\ rendered' = Append(rendered, [hash |-> hash, prefix |-> prefix,
                                       doc |-> artifact.src,
                                       result |-> result])
       /\ IF result = "ok"
            THEN /\ pages' = artifact.pages
                 /\ canvas' = _layout_pages(img_size, page_size, pages')
                 /\ files' = files \cup {DigestPath(prefix)}
                 /\ frames' = Append(frames,
                                     [of |-> hash, doc |-> artifact.src,
                                      pastes |-> canvas'])
                 /\ pc' = "advance"
                 /\ err' = err
            ELSE /\ pc' = IF Caught(result) THEN "advance" ELSE "crashed"
                 /\ err' = IF Caught(result) THEN err ELSE result
                 /\ IF result = "ZeroDivisionError"
                      THEN pages' = artifact.pages /\ canvas' = <<>>
                      ELSE UNCHANGED <<pages, canvas>>
                 /\ UNCHANGED <<frames, files>>
  /\ UNCHANGED <<args, history, img_size, page_size, hashes, prefix, stop,
                 hash, head, artifact, gif, checked, built>>

\* run, lines 120-121
Advance ==
  /\ pc = "advance"
  /\ prefix' = prefix + 1
  /\ stop' = StopAfter(hash, args.endhash, hashes)
  /\ pc' = "while"
  /\ UNCHANGED <<args, history, img_size, page_size, hashes, frames, hash,
                 head, artifact, files, gif, err, pages, canvas, checked, built,
                 rendered>>

\* run, lines 123-125
Gif ==
  /\ pc = "gif"
  /\ IF args.gifpath = None
       THEN /\ pc' = "done"
            /\ UNCHANGED <<gif, err>>
       ELSE IF Len(frames) = 0
       THEN \* img, *imgs = [] raises ValueError
            /\ pc' = "crashed"
            /\ err' = "ValueError"
            /\ gif' = gif
       ELSE /\ gif' = Encoded(frames)
            /\ pc' = "done"
            /\ err' = err
  /\ UNCHANGED <<args, history, img_size, page_size, hashes, frames, prefix,
                 stop, hash, head, artifact, files, pages, canvas, checked,
                 built, rendered>>

Next == Main \/ RunStart \/ While \/ Checkout \/ CompilePdf \/ Render
          \/ Advance \/ Gif

Spec == Init /\ [][Next]_vars

\* ------------------------------------------- direct calls of the layout --
InitLayout ==
  /\ history = <<>>
  /\ \E w \in FrameWidths, h \in FrameHeights, pw \in PageWidths,
        ph \in PageHeights :
       args = [framewidth |-> w, frameheight |-> h, pagewidth |-> pw,
               pageheight |-> ph, starthash |-> None, endhash |-> None,
               gifpath |-> None]
  /\ artifact = NoArtifact
  /\ InitRun

\* Renderer._layout_pages(canvas, pages) called with n pages
LayoutPages ==
  /\ pc = "run"
  /\ \E n \in 0..(2 * MaxPages) :
       /\ pages' = n
       /\ IF LayoutRaises(img_size, page_size, n)
            THEN \* line 36 raises ZeroDivisionError before the first paste
                 /\ canvas' = <<>>
                 /\ pc' = "crashed"
                 /\ err' = "ZeroDivisionError"
            ELSE /\ canvas' = _layout_pages(img_size, page_size, n)
                 /\ UNCHANGED <<pc, err>>
  /\ UNCHANGED <<args, history, img_size, page_size, artifact>>
  /\ UNCHANGED runVars

NextLayout == Main \/ LayoutPages

SpecLayout == InitLayout /\ [][NextLayout]_vars

\* ------------------------------------------------------------ fairness --
\* main runs in one thread and every checkout, build and render call is a
\* blocking call that returns or raises: an enabled step is taken.
FairSpec == Init /\ [][Next]_vars /\ WF_vars(Next)

\* ------------------------------------------------- auxiliary notions --
Range(q) == {q[k] : k \in 1..Len(q)}
HashesOf(q) == [k \in 1..Len(q) |-> q[k].hash]
IsPrefixOf(p, q) == Len(p) <= Len(q) /\ \A k \in 1..Len(p) : p[k] = q[k]
\* position of x in q, Len(q) + 1 when absent
Position(q, x) ==
  IF x \in Range(q) THEN CHOOSE k \in 1..Len(q) : q[k] = x ELSE Len(q) + 1
\* the revisions from startRevision on, all of them when none is given
FromStart ==
  IF args.starthash = None THEN history
  ELSE SubSeq(history, Position(history, args.starthash), Len(history))
\* FromStart through endRevision, through the last one when it does not occur
Window ==
  IF args.endhash \in Range(FromStart)
    THEN SubSeq(FromStart, 1, Position(FromStart, args.endhash))
    ELSE FromStart
\* the revision loop of run has been left
LoopLeft == pc \in {"gif", "done"} \/ (pc = "crashed" /\ err = "ValueError")
Skipped(k) == rendered[k].result = "PDFPageCountError"
\* revisions whose render call returned a canvas, in call order
OkRevs == HashesOf(SelectSeq(rendered, LAMBDA r : r.result = "ok"))
\* the revision each frame was made in
RevsOf(fs) == [k \in 1..Len(fs) |-> fs[k].of]

\* ---------------------------------------------------------------- C1 --
\* C1: a revision whose render raises PDFPageCountError gets no frame, the
\* run is not aborted at it, and once the loop is left every revision of the
\* window from startRevision through the stop condition has been checked
\* out, built and rendered, in order.
C1_SkipPolicy ==
  \A k \in 1..Len(rendered) :
    Skipped(k) =>
      /\ \A i \in 1..Len(frames) : frames[i].of # rendered[k].hash
      /\ Len(frames) < Len(rendered)
      /\ pc = "crashed" => (err = "ValueError" \/ Len(checked) > k)
      /\ LoopLeft => /\ HashesOf(checked) = Window
                     /\ HashesOf(built) = Window
                     /\ HashesOf(rendered) = Window

\* a skipped revision in the middle, both neighbours rendered, loop left
C1_Witness ==
  /\ pc = "done"
  /\ Len(rendered) = 3
  /\ Skipped(2)
  /\ rendered[1].result = "ok"
  /\ rendered[3].result = "ok"
  /\ Len(frames) = 2

\* ---------------------------------------------------------------- C2 --
\* C2: when the loop is left with no frame and an animation path is given,
\* the process does not end with an uncaught exception.
C2_EmptyEncodeHandled ==
  (stop /\ Len(frames) = 0 /\ args.gifpath # None) => pc # "crashed"

\* ---------------------------------------------------------------- C3 --
\* C3: a layout with zero pages per row is rejected before the run starts:
\* no revision is checked out and no division by zero ends the run.
C3_EagerRejection ==
  pages_per_row(ClampImg(args.framewidth, args.frameheight),
                ClampPage(args.pagewidth, args.pageheight)) = 0
    => (checked = <<>> /\ built = <<>> /\ rendered = <<>>
        /\ err # "ZeroDivisionError")

\* ---------------------------------------------------------------- C4 --
\* C4: a checkout that does not complete aborts the run at once: no build,
\* no render and no frame for that revision, no later revision, no GIF.
C4_CheckoutFailureFatal ==
  \A k \in 1..Len(checked) :
    checked[k].exit # "exit0" =>
      /\ pc = "crashed"
      /\ Len(checked) = k
      /\ Len(built) < k
      /\ Len(rendered) < k
      /\ \A i \in 1..Len(frames) : frames[i].of # checked[k].hash
      /\ gif = <<>>

\* ---------------------------------------------------------------- C5 --
\* C5: the revisions run processes are, in list order, those from
\* startRevision on: none before it is checked out; exactly one is processed
\* when startRevision is the last revision; none when it is absent.
C5_StartFiltering ==
  /\ IsPrefixOf(HashesOf(checked), FromStart)
  /\ (args.starthash \in Range(history) /\ Len(checked) > 0)
       => checked[1].hash = args.starthash
  /\ (args.starthash # None /\ args.starthash \notin Range(history))
       => checked = <<>>
  /\ (Len(history) > 0 /\ args.starthash = history[Len(history)])
       => /\ Len(checked) <= 1
          /\ LoopLeft => Len(checked) = 1
  /\ (LoopLeft /\ Len(FromStart) > 0) => Len(checked) >= 1

\* the run started at the second of three revisions and processed two
C5_Witness ==
  /\ pc = "done"
  /\ Len(history) = 3
  /\ args.starthash = history[2]
  /\ HashesOf(checked) = <<history[2], history[3]>>

\* ---------------------------------------------------------------- C6 --
\* C6: with a startRevision that matches no revision the run processes
\* nothing, has no frame and ends without an error, whatever endRevision and
\* the animation path are.
C6_AbsentStartSilent ==
  (args.starthash # None /\ args.starthash \notin Range(history))
    => (checked = <<>> /\ frames = <<>> /\ pc # "crashed" /\ err = None)

\* ---------------------------------------------------------------- C7 --
\* C7: endRevision is processed, and nothing is processed after it: once
\* the loop is left with endRevision in the queue after start filtering, the
\* last revision checked out, built and rendered is endRevision, and no
\* revision before the last processed one equals endRevision.
C7_EndBoundary ==
  /\ \A k \in 1..(Len(checked) - 1) : checked[k].hash # args.endhash
  /\ (LoopLeft /\ args.endhash \in Range(FromStart))
       => /\ Len(checked) > 0
          /\ checked[Len(checked)].hash = args.endhash
          /\ built[Len(built)].hash = args.endhash
          /\ rendered[Len(rendered)].hash = args.endhash
          /\ Len(built) = Len(checked)
          /\ Len(rendered) = Len(checked)
          /\ Len(hashes) = Len(FromStart) - Len(checked)

\* the run ended at a skipped endRevision with later revisions still queued
C7_Witness ==
  /\ pc = "done"
  /\ Len(hashes) > 0
  /\ Len(rendered) = 2
  /\ rendered[2].hash = args.endhash
  /\ Skipped(2)
  /\ rendered[1].result = "ok"

\* ---------------------------------------------------------------- C8 --
\* C8: the frames written to the animation are the accumulated frames in
\* append order, which are the rendered revisions in chronological order
\* without the skipped ones, none twice.
C8_AnimationOrder ==
  /\ RevsOf(frames) = OkRevs
  /\ \A i, j \in 1..Len(frames) :
       i < j => Position(history, frames[i].of) < Position(history, frames[j].of)
  /\ (pc = "done" /\ args.gifpath # None) => gif = frames
  /\ Len(gif) > 0 => gif = frames

\* two frames encoded around a skipped revision
C8_Witness ==
  /\ pc = "done"
  /\ Len(rendered) = 3
  /\ Skipped(2)
  /\ RevsOf(gif) = <<rendered[1].hash, rendered[3].hash>>

\* ---------------------------------------------------------------- C9 --
\* the file names the attempts 1, 2, ... are expected to get
DigestNames == <<"1_digest.png", "2_digest.png", "3_digest.png",
                 "4_digest.png", "5_digest.png", "6_digest.png">>

\* C9: the k-th revision processed is rendered with prefix k, the counter
\* advancing once per processed revision from 1, and the PNG files written
\* are exactly k_digest.png for the attempts k that produced a frame.
C9_AttemptNaming ==
  /\ \A k \in 1..Len(rendered) :
       /\ rendered[k].prefix = k
       /\ rendered[k].hash = checked[k].hash
  /\ pc \in {"while", "checkout", "compile", "render", "gif", "done"}
       => prefix = Len(rendered) + 1
  /\ pc = "advance" => prefix = Len(rendered)
  /\ files = {DigestNames[k] : k \in {j \in 1..Len(rendered) :
                                        rendered[j].result = "ok"}}
  /\ Cardinality(files) = Len(frames)

\* [a, b, c] with b skipped: 1_digest.png and 3_digest.png, two frames
C9_Witness ==
  /\ pc = "done"
  /\ HashesOf(rendered) = <<"a", "b", "c">>
  /\ Skipped(2)
  /\ files = {"1_digest.png", "3_digest.png"}
  /\ Len(frames) = 2
  /\ prefix = 4

\* --------------------------------------------------------------- C10 --
\* C10: with at least one page per row, page i is pasted at
\* (margin + pageWidth * (i mod pagesPerRow), pageHeight * (i div pagesPerRow)),
\* one paste per page in page order, so the x of pages i and i + pagesPerRow
\* agree and their y differ by pageHeight.
C10_RowMajorLayout ==
  LET ppr == pages_per_row(img_size, page_size)
      m == (img_size[1] - ppr * page_size[1]) \div 2
  IN  (pc # "main" /\ ppr >= 1) =>
        /\ Len(canvas) = pages
        /\ \A i \in 0..(Len(canvas) - 1) :
             /\ canvas[i + 1][1] = m + page_size[1] * (i % ppr)
             /\ canvas[i + 1][2] = page_size[2] * (i \div ppr)
             /\ i + ppr < Len(canvas) =>
                  /\ canvas[i + 1][1] = canvas[i + ppr + 1][1]
                  /\ canvas[i + 1][2] = canvas[i + ppr + 1][2] - page_size[2]

\* a layout of more than two rows of two or more pages, with a margin
C10_Witness ==
  /\ pc = "run"
  /\ pages_per_row(img_size, page_size) >= 2
  /\ Len(canvas) > 2 * pages_per_row(img_size, page_size)
  /\ canvas[1][1] > 0
  /\ canvas[Len(canvas)][2] >= 2 * page_size[2]

\* --------------------------------------------------------------- C11 --
\* C11: for every pair of sizes the Renderer accepts, a layout call with at
\* least one page pastes page 0 at (margin, 0) with
\* margin = (canvasWidth - pagesPerRow * pageWidth) div 2 >= 0.
C11_FirstPageAtMargin ==
  (pc # "main" /\ pages >= 1) =>
    LET m == (img_size[1] - (img_size[1] \div page_size[1]) * page_size[1])
               \div 2
    IN  /\ m >= 0
        /\ Len(canvas) >= 1
        /\ canvas[1] = <<m, 0>>

\* --------------------------------------------------------------- C12 --
\* C12: from construction on, through every render and every iteration of
\* run, the stored canvas size is the requested one with each component
\* below 100 replaced by 100, and the stored page size the requested one
\* with each component below 10 replaced by 10; all other values are kept.
C12_DimensionsClamp ==
  pc # "main" =>
    /\ img_size[1] = IF args.framewidth < 100 THEN 100 ELSE args.framewidth
    /\ img_size[2] = IF args.frameheight < 100 THEN 100 ELSE args.frameheight
    /\ page_size[1] = IF args.pagewidth < 10 THEN 10 ELSE args.pagewidth
    /\ page_size[2] = IF args.pageheight < 10 THEN 10 ELSE args.pageheight

\* a page width below the floor and a canvas at the floor, after two renders
C12_Witness ==
  /\ pc = "done"
  /\ Len(rendered) >= 2
  /\ Len(frames) >= 1
  /\ args.pagewidth < 10
  /\ page_size = <<10, 10>>
  /\ args.framewidth = 100
  /\ img_size = <<100, 100>>

\* --------------------------------------------------------------- C13 --
\* C13: a build that exits non-zero neither aborts the run nor skips the
\* revision at the build step: the renderer is still called for that
\* revision, which gets a frame when the document at the artifact path is
\* rasterized and is skipped when it is not.
C13_BuildFailureIgnored ==
  \A k \in 1..Len(built) :
    built[k].exit = "exit1" =>
      /\ Len(rendered) < k => (pc = "render" /\ Len(built) = k)
      /\ Len(rendered) >= k =>
           /\ rendered[k].hash = built[k].hash
           /\ rendered[k].prefix = k
           /\ (rendered[k].result = "PDFPageCountError")
                <=> (rendered[k].doc \in {NoArtifact.src, Unreadable.src})
           /\ rendered[k].result = "PDFPageCountError"
                => \A i \in 1..Len(frames) : frames[i].of # built[k].hash
           /\ rendered[k].result = "ok"
                => \E i \in 1..Len(frames) :
                     /\ frames[i].of = built[k].hash
                     /\ frames[i].doc = rendered[k].doc
           /\ pages_per_row(img_size, page_size) >= 1
                => rendered[k].result \in {"ok", "PDFPageCountError"}

\* a failed build followed by a frame, and a failed build followed by a skip
C13_Witness ==
  /\ pc = "done"
  /\ Len(built) = 3
  /\ built[2].exit = "exit1" /\ rendered[2].result = "ok"
  /\ built[3].exit = "exit1" /\ rendered[3].result = "PDFPageCountError"

\* --------------------------------------------------------------- C14 --
\* C14: every frame appended for a revision shows the document built in that
\* revision's iteration from the working tree checked out at that revision:
\* never a document left at the artifact path by an earlier build, never a
\* build of a tree still at another revision.
C14_FrameFreshness ==
  \A i \in 1..Len(frames) :
    /\ frames[i].doc = frames[i].of
    /\ \E k \in 1..Len(built) :
         /\ built[k].hash = frames[i].of
         /\ built[k].exit = "exit0"
         /\ checked[k].hash = frames[i].of
         /\ checked[k].exit = "exit0"

\* --------------------------------------------------------------- C15 --
\* C15: when endRevision is given but does not occur among the revisions
\* from startRevision on (absent from the history or before startRevision),
\* the loop does not stop early: it is left only with the queue empty and
\* every revision from startRevision through the last one processed, as with
\* no endRevision.
C15_UnreachableEnd ==
  (args.endhash # None /\ args.endhash \notin Range(FromStart)) =>
    /\ (pc \in {"while", "gif", "done"} /\ stop) => hashes = <<>>
    /\ LoopLeft => /\ HashesOf(checked) = FromStart
                   /\ HashesOf(built) = FromStart
                   /\ HashesOf(rendered) = FromStart
                   /\ hashes = <<>>

\* endRevision lies before startRevision and the run went on to the last one
C15_Witness ==
  /\ pc = "done"
  /\ history = <<"a", "b", "c">>
  /\ args.starthash = "b"
  /\ args.endhash = "a"
  /\ HashesOf(rendered) = <<"b", "c">>

\* --------------------------------------------------------------- C16 --
\* the run has returned or has ended with an exception
Terminated == pc \in {"done", "crashed"}
\* the revisions taken from the queue so far
Taken == Len(checked) + (IF pc = "checkout" THEN 1 ELSE 0)
LoopProgress ==
  /\ Len(checked) <= Len(history)
  /\ \A i, j \in 1..Len(checked) : i # j => checked[i].hash # checked[j].hash
  /\ pc \notin {"main", "run"} => Len(hashes) + Taken = Len(FromStart)

\* C16: when every checkout, build and render call returns, run ends for
\* every history, start/end choice and pattern of failures; each iteration
\* takes exactly one revision from the queue, no revision is processed twice
\* and there are never more iterations than revisions in the history.
C16_Termination == []LoopProgress /\ <>Terminated

\* a run of three iterations, one of them skipped, that has returned
C16_Witness ==
  /\ pc = "done"
  /\ Len(checked) = 3
  /\ Len(history) = 3
  /\ hashes = <<>>
  /\ \E k \in 1..3 : Skipped(k)

\* --------------------------------------------------------------- C17 --
\* unused width left and right of a full row of the latest layout
LeftGap == canvas[1][1]
RightGap ==
  img_size[1] - (canvas[img_size[1] \div page_size[1]][1] + page_size[1])

\* C17: with pageWidth <= canvasWidth every pasted page lies within the
\* canvas horizontally, 0 <= x and x + pageWidth <= canvasWidth, and the
\* unused width left and right of a full row differs by at most 1; pages may
\* only stick out at the bottom.
C17_HorizontalContainment ==
  (pc # "main" /\ page_size[1] <= img_size[1]) =>
    /\ \A k \in 1..Len(canvas) :
         /\ 0 <= canvas[k][1]
         /\ canvas[k][1] + page_size[1] <= img_size[1]
         /\ 0 <= canvas[k][2]
    /\ Len(canvas) >= img_size[1] \div page_size[1] =>
         /\ LeftGap <= RightGap
         /\ RightGap - LeftGap <= 1

\* a full row with gaps differing by one and a page below the canvas bottom
C17_Witness ==
  /\ pc = "run"
  /\ page_size[1] <= img_size[1]
  /\ Len(canvas) >= 2 * (img_size[1] \div page_size[1])
  /\ Len(canvas) >= 4
  /\ RightGap = LeftGap + 1
  /\ LeftGap > 0
  /\ canvas[Len(canvas)][2] + page_size[2] > img_size[2]

=============================================================================
